---------------------------- MODULE Spec2Model ----------------------------
(***************************************************************************)
(* A model of the yield agent's query normalisation, state aggregation and *)
(* response rendering (yield_agent/state.py, nodes/input_parser.py,        *)
(* nodes/response_formatter.py).                                           *)
(*                                                                         *)
(* Python strings that the code inspects character by character (queries,  *)
(* warnings keys aside) are sequences of one-character strings; literal    *)
(* template text that the code only concatenates is one element of such a  *)
(* sequence.  Optional[T] is <<>> for None and <<v>> for a value v.        *)
(***************************************************************************)
EXTENDS Integers, Sequences, FiniteSets, TLC

VARIABLES
    state,        \* the AgentState of the request
    pc,           \* position of the request / of the function under check
    payload,      \* the inbound payload the request started from
    llm,          \* what parse_input did with the external classification call
    answer,       \* the answer text parse_input read from the call, None if none
    extracted,    \* whether parse_input ran the parameter extraction
    raised,       \* whether an exception escaped parse_input
    existing,     \* merge_*: first argument
    new,          \* merge_*: second argument
    merged,       \* merge_*: returned list
    remerged,     \* merge_opportunities(merged, new)
    text,         \* parse_risk_tolerance: the text argument
    risk,         \* parse_risk_tolerance: returned value, None before the call
    delivery,     \* the collection an upstream stage handed over last
    deliveries,   \* number of enrichment updates applied so far
    scan_order,   \* the order in which this process iterates KNOWN_TOKENS
    runs,         \* parse_amount_and_token: what each run on `text` returned
    twin          \* a second request: same query and history, other presets

vars == <<state, pc, payload, llm, answer, extracted, raised, existing, new,
          merged, remerged, text, risk, delivery, deliveries, scan_order, runs,
          twin>>

requestVars == <<state, payload>>
parseVars == <<llm, answer, extracted, raised>>
mergeVars == <<existing, new, merged, remerged>>
textVars == <<text, risk>>
enrichVars == <<delivery, deliveries>>
tokenVars == <<scan_order, runs>>
twinVars == <<twin>>

-----------------------------------------------------------------------------
(* Bounds of the model *)

MaxLen == 2

MaxDeliveries == 3

MaxFrags == 2

MaxParts == 2

-----------------------------------------------------------------------------
(* Generic helpers *)

None == <<>>

Some(v) == <<v>>

Range(s) == {s[i] : i \in DOMAIN s}

SeqsUpTo(S, n) == UNION {[1..k -> S] : k \in 0..n}

NoDuplicates(s) == \A i, j \in DOMAIN s : i # j => s[i] # s[j]

\* The k-th smallest element of a finite set of naturals.
Kth(K, k) == CHOOSE i \in K : Cardinality({j \in K : j <= i}) = k

\* Python's "needle in hay" on strings.
Contains(needle, hay) ==
    \E i \in 0..(Len(hay) - Len(needle)) :
        SubSeq(hay, i + 1, i + Len(needle)) = needle

-----------------------------------------------------------------------------
(* state.py: merge functions *)

PoolIds == {"p1", "p2"}

\* A YieldOpportunity: the dedup key and one other field that tells two
\* instances with the same key apart.
Opportunities == [pool_id : PoolIds, apy : {4, 7}]

WarningStrings == {"a", "b", "c"}

PoolIdsOf(opps) == {opps[i].pool_id : i \in DOMAIN opps}

RECURSIVE MergeLoop(_, _, _)
MergeLoop(acc, seen_ids, rest) ==
    IF rest = <<>> THEN acc
    ELSE LET opp == Head(rest) IN
         IF opp.pool_id \notin seen_ids
         THEN MergeLoop(Append(acc, opp), seen_ids \cup {opp.pool_id}, Tail(rest))
         ELSE MergeLoop(acc, seen_ids, Tail(rest))

\* mutant: the loop forgets seen_ids.add(), so a pool repeated in new is
\* appended each time it occurs.
RECURSIVE MergeLoopNoAdd(_, _, _)
MergeLoopNoAdd(acc, seen_ids, rest) ==
    IF rest = <<>> THEN acc
    ELSE LET opp == Head(rest) IN
         IF opp.pool_id \notin seen_ids
         THEN MergeLoopNoAdd(Append(acc, opp), seen_ids, Tail(rest))
         ELSE MergeLoopNoAdd(acc, seen_ids, Tail(rest))

merge_opportunities_no_add(ex, nw) == MergeLoopNoAdd(ex, PoolIdsOf(ex), nw)

\* mutant: seen_ids starts empty, so pools of existing are appended again.
merge_opportunities_no_seen(ex, nw) == MergeLoop(ex, {}, nw)

\* mutant: the merged list is rebuilt from the ids, new items first.
merge_opportunities_new_first(ex, nw) == MergeLoop(<<>>, {}, nw \o ex)

merge_opportunities(ex, nw) == MergeLoop(ex, PoolIdsOf(ex), nw)

\* dict.fromkeys(items) followed by list(): the keys in insertion order.
RECURSIVE FromKeys(_, _)
FromKeys(keys, items) ==
    IF items = <<>> THEN keys
    ELSE IF Head(items) \in Range(keys)
         THEN FromKeys(keys, Tail(items))
         ELSE FromKeys(Append(keys, Head(items)), Tail(items))

\* mutant: plain concatenation, no de-duplication.
merge_warnings_concat(ex, nw) == ex \o nw

merge_warnings(ex, nw) == FromKeys(<<>>, ex \o nw)

-----------------------------------------------------------------------------
(* Texts *)

UpperCase == <<"A", "B", "C", "D", "E", "F", "G", "H", "I", "J", "K", "L", "M",
               "N", "O", "P", "Q", "R", "S", "T", "U", "V", "W", "X", "Y", "Z">>

LowerCase == <<"a", "b", "c", "d", "e", "f", "g", "h", "i", "j", "k", "l", "m",
               "n", "o", "p", "q", "r", "s", "t", "u", "v", "w", "x", "y", "z">>

LowerChar(c) ==
    IF \E i \in DOMAIN UpperCase : UpperCase[i] = c
    THEN LowerCase[CHOOSE i \in DOMAIN UpperCase : UpperCase[i] = c]
    ELSE c

\* str.lower()
Lower(s) == [i \in DOMAIN s |-> LowerChar(s[i])]

RECURSIVE Concat(_)
Concat(ss) == IF ss = <<>> THEN <<>> ELSE Head(ss) \o Concat(Tail(ss))

\* " ".join(parts)
RECURSIVE Join(_)
Join(parts) ==
    IF parts = <<>> THEN <<>>
    ELSE IF Len(parts) = 1 THEN parts[1]
    ELSE parts[1] \o <<" ">> \o Join(Tail(parts))

T_safe == <<"s", "a", "f", "e">>
T_low_risk == <<"l", "o", "w", " ", "r", "i", "s", "k">>
T_conservative == <<"c", "o", "n", "s", "e", "r", "v", "a", "t", "i", "v", "e">>
T_aggressive == <<"a", "g", "g", "r", "e", "s", "s", "i", "v", "e">>
T_high_risk == <<"h", "i", "g", "h", " ", "r", "i", "s", "k">>
T_degen == <<"d", "e", "g", "e", "n">>
T_compare == <<"c", "o", "m", "p", "a", "r", "e">>
T_vs == <<"v", "s">>
T_bridge == <<"b", "r", "i", "d", "g", "e">>
T_move == <<"m", "o", "v", "e">>
T_risk == <<"r", "i", "s", "k">>
T_audit == <<"a", "u", "d", "i", "t">>
T_route == <<"r", "o", "u", "t", "e">>
T_hi == <<"h", "i">>
T_yield_search == <<"y", "i", "e", "l", "d", "_", "s", "e", "a", "r", "c", "h">>
T_No_query_provided == <<"N", "o", " ", "q", "u", "e", "r", "y", " ", "p", "r", "o", "v", "i", "d", "e", "d">>
T_Your_yield_query == <<"Y", "o", "u", "r", " ", "y", "i", "e", "l", "d", " ", "q", "u", "e", "r", "y">>

-----------------------------------------------------------------------------
(* nodes/input_parser.py: rule-based helpers *)

\* safe_lower on a str argument: "" when the text is falsy, else
\* str(text).lower().  Every caller in this model passes a str (the query
\* after normalisation, the answer text of the classification call).
safe_lower(txt) == IF txt = <<>> THEN <<>> ELSE Lower(txt)

AnyIn(keywords, txt) == \E k \in Range(keywords) : Contains(k, txt)

\* mutant: the aggressive bucket is tested before the conservative one.
parse_risk_tolerance_aggressive_first(query) ==
    LET query_lower == safe_lower(query) IN
    IF AnyIn(<<T_aggressive, T_high_risk, T_degen>>, query_lower) THEN "aggressive"
    ELSE IF AnyIn(<<T_safe, T_low_risk, T_conservative>>, query_lower) THEN "conservative"
    ELSE "moderate"

parse_risk_tolerance(query) ==
    LET query_lower == safe_lower(query) IN
    IF AnyIn(<<T_safe, T_low_risk, T_conservative>>, query_lower) THEN "conservative"
    ELSE IF AnyIn(<<T_aggressive, T_high_risk, T_degen>>, query_lower) THEN "aggressive"
    ELSE "moderate"

parse_intent(query) ==
    LET query_lower == safe_lower(query) IN
    IF AnyIn(<<T_compare, T_vs>>, query_lower) THEN "compare"
    ELSE IF AnyIn(<<T_bridge, T_move>>, query_lower) THEN "route_only"
    ELSE IF AnyIn(<<T_risk, T_audit>>, query_lower) THEN "risk_analysis"
    ELSE "yield_search"

-----------------------------------------------------------------------------
(* nodes/input_parser.py: amount, token and chain extraction *)

Digits == <<"0", "1", "2", "3", "4", "5", "6", "7", "8", "9">>

\* \d
DigitChars == Range(Digits)

IsDigit(c) == c \in DigitChars

DigitValue(c) == (CHOOSE i \in DOMAIN Digits : Digits[i] = c) - 1

\* [A-Za-z]
LetterChars == Range(UpperCase) \cup Range(LowerCase)

IsLetter(c) == c \in LetterChars

\* \w, as far as \b after "k" needs it
IsWordChar(c) == IsDigit(c) \/ IsLetter(c) \/ c = "_"

\* \s
SpaceChars == {" ", "\t", "\n"}

IsSpace(c) == c \in SpaceChars

\* The number of consecutive characters of s from index i on that are in
\* the class.
RunLen(s, i, class) ==
    LET stops == {j \in i..Len(s) : s[j] \notin class} IN
    IF stops = {} THEN (IF i > Len(s) THEN 0 ELSE Len(s) - i + 1)
    ELSE (CHOOSE j \in stops : \A k \in stops : j <= k) - i

RECURSIVE StripLeadingZeros(_)
StripLeadingZeros(ds) ==
    IF ds # <<>> /\ Head(ds) = "0" THEN StripLeadingZeros(Tail(ds)) ELSE ds

RECURSIVE StripTrailingZeros(_)
StripTrailingZeros(ds) ==
    IF ds # <<>> /\ ds[Len(ds)] = "0"
    THEN StripTrailingZeros(SubSeq(ds, 1, Len(ds) - 1))
    ELSE ds

\* str(int(digits) * 1000)
TimesThousand(ds) ==
    IF StripLeadingZeros(ds) = <<>> THEN <<"0">>
    ELSE StripLeadingZeros(ds) \o <<"0", "0", "0">>

\* Line 36: re.sub(r"(\d+)k\b", ...): every digit run followed by a "k" that
\* ends a word is rewritten to the run times 1000.
RECURSIVE SubThousands(_)
SubThousands(s) ==
    IF s = <<>> THEN <<>>
    ELSE IF IsDigit(s[1])
    THEN LET n == RunLen(s, 1, DigitChars)
             k == n + 1
             matches == /\ k <= Len(s)
                        /\ s[k] = "k"
                        /\ (k + 1 > Len(s) \/ ~IsWordChar(s[k + 1]))
         IN IF matches
            THEN TimesThousand(SubSeq(s, 1, n)) \o SubThousands(SubSeq(s, k + 1, Len(s)))
            ELSE SubSeq(s, 1, n) \o SubThousands(SubSeq(s, n + 1, Len(s)))
    ELSE <<s[1]>> \o SubThousands(Tail(s))

\* (?:,\d{3})* from index pos on: the index after the last group taken.
RECURSIVE AfterCommaGroups(_, _)
AfterCommaGroups(s, pos) ==
    IF /\ pos + 3 <= Len(s)
       /\ s[pos] = ","
       /\ \A j \in (pos + 1)..(pos + 3) : IsDigit(s[j])
    THEN AfterCommaGroups(s, pos + 4)
    ELSE pos

\* (?:\.\d+)? from index pos on: the index after it.
AfterFraction(s, pos) ==
    IF pos + 1 <= Len(s) /\ s[pos] = "." /\ IsDigit(s[pos + 1])
    THEN pos + 1 + RunLen(s, pos + 1, DigitChars)
    ELSE pos

\* Lines 38-39: re.search of the amount pattern: the leftmost match starts
\* at the first digit (or at a "$" right before it); every later piece of
\* the pattern is optional and greedy.  group1 is the number as written,
\* group2 the 2-10 letters after it, None when fewer than two follow.
AmountMatch(s) ==
    LET digits == {j \in DOMAIN s : IsDigit(s[j])} IN
    IF digits = {} THEN [found |-> FALSE, group1 |-> <<>>, group2 |-> None]
    ELSE LET first == CHOOSE j \in digits : \A k \in digits : j <= k
             stop == AfterFraction(s, AfterCommaGroups(s, first + RunLen(s, first, DigitChars)))
             start == stop + RunLen(s, stop, SpaceChars)
             letters == RunLen(s, start, LetterChars)
             taken == IF letters > 10 THEN 10 ELSE letters
         IN [found |-> TRUE,
             group1 |-> SubSeq(s, first, stop - 1),
             group2 |-> IF letters >= 2 THEN Some(SubSeq(s, start, start + taken - 1))
                        ELSE None]

RECURSIVE ToNat(_)
ToNat(ds) == IF ds = <<>> THEN 0 ELSE 10 * ToNat(SubSeq(ds, 1, Len(ds) - 1)) + DigitValue(ds[Len(ds)])

\* Line 41: float(group1.replace(",", "")), as its whole part and its
\* fraction digits without trailing zeros.
ToFloat(numeral) ==
    LET plain == SelectSeq(numeral, LAMBDA c : c # ",")
        dots == {j \in DOMAIN plain : plain[j] = "."}
        dot == IF dots = {} THEN Len(plain) + 1 ELSE CHOOSE j \in dots : TRUE
    IN [whole |-> ToNat(SubSeq(plain, 1, dot - 1)),
        frac |-> StripTrailingZeros(SubSeq(plain, dot + 1, Len(plain)))]

\* Line 31: the members of KNOWN_TOKENS, in the order the set literal
\* declares them.
KNOWN_TOKENS ==
    <<"USDC", "USDT", "DAI", "FRAX", "ETH", "WETH", "BTC", "WBTC", "MATIC", "BNB",
      "AVAX", "ARB", "OP">>

\* t.lower()
TokenLower(t) ==
    CASE t = "USDC" -> <<"u", "s", "d", "c">>
      [] t = "USDT" -> <<"u", "s", "d", "t">>
      [] t = "DAI" -> <<"d", "a", "i">>
      [] t = "FRAX" -> <<"f", "r", "a", "x">>
      [] t = "ETH" -> <<"e", "t", "h">>
      [] t = "WETH" -> <<"w", "e", "t", "h">>
      [] t = "BTC" -> <<"b", "t", "c">>
      [] t = "WBTC" -> <<"w", "b", "t", "c">>
      [] t = "MATIC" -> <<"m", "a", "t", "i", "c">>
      [] t = "BNB" -> <<"b", "n", "b">>
      [] t = "AVAX" -> <<"a", "v", "a", "x">>
      [] t = "ARB" -> <<"a", "r", "b">>
      [] t = "OP" -> <<"o", "p">>

\* KNOWN_TOKENS is a set of str: `for t in KNOWN_TOKENS` visits it in the
\* order of the string hashes, which are salted per process.  Every member
\* can come first; the rotations of the declaration order cover that.
ScanOrders ==
    {[i \in DOMAIN KNOWN_TOKENS |->
         KNOWN_TOKENS[((i + k - 1) % Len(KNOWN_TOKENS)) + 1]] : k \in 0..(Len(KNOWN_TOKENS) - 1)}

\* token_match.upper() in KNOWN_TOKENS, on the lowercased text
DirectToken(group2) ==
    IF group2 = None THEN None
    ELSE LET hits == {t \in Range(KNOWN_TOKENS) : TokenLower(t) = Lower(group2[1])} IN
         IF hits = {} THEN None ELSE Some(CHOOSE t \in hits : TRUE)

\* Lines 46-49: the first member, in the order scanned, that the text holds.
FallbackToken(query_clean, order) ==
    LET hits == {i \in DOMAIN order : Contains(TokenLower(order[i]), query_clean)} IN
    IF hits = {} THEN None
    ELSE Some(order[CHOOSE i \in hits : \A j \in hits : i <= j])

\* parse_amount_and_token(query) in a process whose set order is `order`.
parse_amount_and_token(query, order) ==
    LET query_clean == safe_lower(query)
        query_normalized == SubThousands(query_clean)
        match == AmountMatch(query_normalized)
        direct == IF match.found THEN DirectToken(match.group2) ELSE None
    IN [amount |-> IF match.found THEN Some(ToFloat(match.group1)) ELSE None,
        token |-> IF direct # None THEN direct ELSE FallbackToken(query_clean, order)]

\* state.py lines 43-99: the keys of SUPPORTED_CHAINS, in dict order.
SUPPORTED_CHAINS ==
    <<"ethereum", "arbitrum", "optimism", "polygon", "base", "avalanche", "bsc">>

ChainChars(key) ==
    CASE key = "ethereum" -> <<"e", "t", "h", "e", "r", "e", "u", "m">>
      [] key = "arbitrum" -> <<"a", "r", "b", "i", "t", "r", "u", "m">>
      [] key = "optimism" -> <<"o", "p", "t", "i", "m", "i", "s", "m">>
      [] key = "polygon" -> <<"p", "o", "l", "y", "g", "o", "n">>
      [] key = "base" -> <<"b", "a", "s", "e">>
      [] key = "avalanche" -> <<"a", "v", "a", "l", "a", "n", "c", "h", "e">>
      [] key = "bsc" -> <<"b", "s", "c">>

\* Line 32: CHAIN_ALIASES, in dict order.
CHAIN_ALIASES ==
    <<[alias |-> <<"e", "t", "h">>, key |-> "ethereum"],
      [alias |-> <<"a", "r", "b">>, key |-> "arbitrum"],
      [alias |-> <<"o", "p">>, key |-> "optimism"],
      [alias |-> <<"m", "a", "t", "i", "c">>, key |-> "polygon"],
      [alias |-> <<"b", "n", "b">>, key |-> "bsc"],
      [alias |-> <<"a", "v", "a", "x">>, key |-> "avalanche"]>>

RECURSIVE AddAliases(_, _, _)
AddAliases(preferred, aliases, query_lower) ==
    IF aliases = <<>> THEN preferred
    ELSE LET a == Head(aliases) IN
         IF Contains(a.alias, query_lower) /\ a.key \notin Range(preferred)
         THEN AddAliases(Append(preferred, a.key), Tail(aliases), query_lower)
         ELSE AddAliases(preferred, Tail(aliases), query_lower)

\* parse_chains(query): (preferred, current); current is always None.
parse_chains(query) ==
    LET query_lower == safe_lower(query)
        by_key == SelectSeq(SUPPORTED_CHAINS, LAMBDA key : Contains(ChainChars(key), query_lower))
    IN [preferred |-> AddAliases(by_key, CHAIN_ALIASES, query_lower), current |-> None]

-----------------------------------------------------------------------------
(* state.py: AgentState, and the payload shapes it can carry *)

\* One part of a list-valued message content.
\*   str          a plain string
\*   text         a dict {"type": "text", "text": <str>}
\*   text_missing a dict {"type": "text"} with no "text" key
\*   text_none    a dict {"type": "text", "text": None}
\*   image        a dict whose "type" is not "text" (or is absent)
\*   other        neither a str nor a dict
PartTexts == {<<>>, T_hi}

Parts ==
    [k : {"str", "text"}, text : PartTexts]
        \cup [k : {"text_missing", "text_none", "image", "other"}, text : {<<>>}]

\* A Python value held by `query`: a str, a list of parts, or None.
StrValue(s) == [t |-> "str", s |-> s, parts |-> <<>>]

ListValue(ps) == [t |-> "list", s |-> <<>>, parts |-> ps]

NoneValue == [t |-> "none", s |-> <<>>, parts |-> <<>>]

Contents ==
    {StrValue(s) : s \in PartTexts} \cup {NoneValue}
        \cup {ListValue(ps) : ps \in SeqsUpTo(Parts, MaxParts)}

\* One entry of the conversation history.
\*   object             has a content attribute (a message object)
\*   mapping            a dict with a "content" key
\*   mapping_no_content a dict without a "content" key
\*   bare               neither
Messages ==
    [shape : {"object", "mapping"}, content : Contents]
        \cup [shape : {"mapping_no_content", "bare"}, content : {NoneValue}]

AIMessage(content) == [shape |-> "object", content |-> StrValue(content)]

\* AgentState(): every field at its declared default.
AgentState ==
    [messages |-> <<>>,
     user_query |-> <<>>,
     amount |-> None,
     token |-> None,
     current_chain |-> None,
     risk_tolerance |-> "moderate",
     preferred_chains |-> <<>>,
     excluded_protocols |-> <<>>,
     intent |-> None,
     target_chains |-> <<>>,
     processing_step |-> "initialized",
     yield_opportunities |-> <<>>,
     recommendations |-> <<>>,
     warnings |-> <<>>,
     formatted_response |-> <<>>,
     error |-> None]

\* How a node's returned dict updates the state: messages goes through the
\* add_messages reducer (appended), every other field is overwritten.
ApplyUpdate(st, upd) ==
    [f \in DOMAIN st |->
        IF f \notin DOMAIN upd THEN st[f]
        ELSE IF f = "messages" THEN st[f] \o upd[f]
        ELSE upd[f]]

\* Python truthiness of an Optional[str].
TruthyOpt(o) == o # None /\ o[1] # <<>>

\* Python truthiness of the value held by `query`.
Truthy(v) ==
    CASE v.t = "str" -> v.s # <<>>
      [] v.t = "list" -> v.parts # <<>>
      [] OTHER -> FALSE

-----------------------------------------------------------------------------
(* nodes/input_parser.py: parse_input *)

\* Lines 80-88: the explicit query, else the last history entry's content.
SelectQuery(st) ==
    LET query == StrValue(st.user_query) IN
    IF ~Truthy(query) /\ st.messages # <<>>
    THEN LET last_message == st.messages[Len(st.messages)] IN
         CASE last_message.shape = "object" -> last_message.content
           [] last_message.shape = "mapping" -> last_message.content
           [] last_message.shape = "mapping_no_content" -> StrValue(<<>>)
           [] OTHER -> query
    ELSE query

\* Lines 92-96: the parts the loop appends to text_parts.
AppendedParts(parts) ==
    SelectSeq(parts, LAMBDA part : part.k \in {"str", "text", "text_missing", "text_none"})

\* Line 97: " ".join(text_parts) raises TypeError when an appended item is
\* not a str, which is the case of part.get("text", "") on "text": None.
JoinRaises(parts) == \E i \in DOMAIN parts : parts[i].k = "text_none"

PartStrings(parts) == [i \in DOMAIN AppendedParts(parts) |-> AppendedParts(parts)[i].text]

\* Lines 91-97: a list-valued query is forced to a str.
ForceString(query) ==
    IF query.t = "list" THEN StrValue(Join(PartStrings(query.parts))) ELSE query

\* mutant of the line-99 test: only None counts as "no query".
IsEmptyQueryNoneOnly(query) == query.t = "none"

\* Line 99: `if not query`.
IsEmptyQuery(query) == ~Truthy(query)

\* The external classification call of lines 105-107.
LlmOutcomes == {"construct_fails", "invoke_fails", "read_fails", "ok"}

LlmAnswers ==
    {T_compare, T_route, T_risk, T_hi, T_yield_search, <<"C", "o", "m", "p", "a", "r", "e">>}

\* No call: parse_input returned (or raised) before line 105.
NotCalled == [outcome |-> "not_called", calls |-> 0]

\* llm.invoke is reached unless the construction of the client raised.
LlmInvocations(outcome) == IF outcome = "construct_fails" THEN 0 ELSE 1

\* mutant: a failed call leaves the intent unset.
ClassifyIntentUnsetOnFailure(query, outcome, content) ==
    IF outcome = "ok"
    THEN LET intent_str == safe_lower(content) IN
         IF Contains(T_compare, intent_str) THEN Some("compare")
         ELSE IF Contains(T_route, intent_str) THEN Some("route_only")
         ELSE IF Contains(T_risk, intent_str) THEN Some("risk_analysis")
         ELSE Some(parse_intent(query))
    ELSE None

\* Lines 103-111: the rule tier, overridden by the answer of a call that
\* succeeded; `except Exception: pass` keeps the rule tier otherwise.
ClassifyIntent(query, outcome, content) ==
    LET intent == parse_intent(query) IN
    IF outcome = "ok"
    THEN LET intent_str == safe_lower(content) IN
         IF Contains(T_compare, intent_str) THEN Some("compare")
         ELSE IF Contains(T_route, intent_str) THEN Some("route_only")
         ELSE IF Contains(T_risk, intent_str) THEN Some("risk_analysis")
         ELSE Some(intent)
    ELSE Some(intent)

\* Line 122: token or "USDC".
TokenOrDefault(token) == IF token # None THEN token ELSE Some("USDC")

\* mutant: a token or an exclusion list already set in the incoming state
\* is kept.
parse_input_keeps_presets(st, outcome, content, order) ==
    LET selected == SelectQuery(st)
        query == ForceString(selected)
        amount_token == parse_amount_and_token(query.s, order)
        chains == parse_chains(query.s)
        preferred_chains == chains.preferred
    IN
    IF selected.t = "list" /\ JoinRaises(selected.parts)
    THEN [raised |-> TRUE, update |-> <<>>, llm |-> NotCalled, extracted |-> FALSE]
    ELSE IF IsEmptyQuery(query)
    THEN [raised |-> FALSE,
          update |-> [processing_step |-> "input_empty_error",
                      error |-> Some(T_No_query_provided)],
          llm |-> NotCalled,
          extracted |-> FALSE]
    ELSE [raised |-> FALSE,
          update |-> [user_query |-> query.s,
                      amount |-> amount_token.amount,
                      token |-> IF st.token # None THEN st.token
                                ELSE TokenOrDefault(amount_token.token),
                      preferred_chains |-> preferred_chains,
                      current_chain |-> chains.current,
                      risk_tolerance |-> parse_risk_tolerance(query.s),
                      intent |-> ClassifyIntent(query.s, outcome, content),
                      excluded_protocols |-> st.excluded_protocols,
                      target_chains |-> IF preferred_chains # <<>> THEN preferred_chains
                                        ELSE SUPPORTED_CHAINS,
                      processing_step |-> "input_parsed"],
          llm |-> [outcome |-> outcome, calls |-> LlmInvocations(outcome)],
          extracted |-> TRUE]

\* parse_input(state) in a process that iterates KNOWN_TOKENS in `order`,
\* with the outcome of the external call: what it returns (update), whether
\* it raised instead, and what it did on the way.
parse_input(st, outcome, content, order) ==
    LET selected == SelectQuery(st)
        query == ForceString(selected)
        amount_token == parse_amount_and_token(query.s, order)
        chains == parse_chains(query.s)
        preferred_chains == chains.preferred
    IN
    IF selected.t = "list" /\ JoinRaises(selected.parts)
    THEN [raised |-> TRUE, update |-> <<>>, llm |-> NotCalled, extracted |-> FALSE]
    ELSE IF IsEmptyQuery(query)
    THEN [raised |-> FALSE,
          update |-> [processing_step |-> "input_empty_error",
                      error |-> Some(T_No_query_provided)],
          llm |-> NotCalled,
          extracted |-> FALSE]
    ELSE [raised |-> FALSE,
          update |-> [user_query |-> query.s,
                      amount |-> amount_token.amount,
                      token |-> TokenOrDefault(amount_token.token),
                      preferred_chains |-> preferred_chains,
                      current_chain |-> chains.current,
                      risk_tolerance |-> parse_risk_tolerance(query.s),
                      intent |-> ClassifyIntent(query.s, outcome, content),
                      excluded_protocols |-> <<>>,
                      target_chains |-> IF preferred_chains # <<>> THEN preferred_chains
                                        ELSE SUPPORTED_CHAINS,
                      processing_step |-> "input_parsed"],
          llm |-> [outcome |-> outcome, calls |-> LlmInvocations(outcome)],
          extracted |-> TRUE]

-----------------------------------------------------------------------------
(* nodes/response_formatter.py *)

DIVIDER_HEAVY == "======================================================================"

DIVIDER_LIGHT == "----------------------------------------------------------------------"

Take(s, n) == SubSeq(s, 1, IF Len(s) < n THEN Len(s) ELSE n)

\* "\n".join(sections)
RECURSIVE JoinLines(_)
JoinLines(sections) ==
    IF sections = <<>> THEN <<>>
    ELSE IF Len(sections) = 1 THEN sections[1]
    ELSE sections[1] \o <<"\n">> \o JoinLines(Tail(sections))

\* A Recommendation, by the fields that tell two of them apart; the numeric
\* columns of the report are rendered as fixed placeholders.
Recommendations == [rank : {1, 2}, protocol : {"aave"}]

format_header(query, num_results) ==
    <<"\n", DIVIDER_HEAVY, "\n  YIELD INTELLIGENCE REPORT\n", DIVIDER_HEAVY, "\n\n  Query: ">>
        \o Take(query, 50)
        \o <<"...\n  Amount: <amount> <token>\n  Risk Profile: <risk_label>\n  Results: ",
             ToString(num_results), " found\n\n", DIVIDER_HEAVY>>

format_summary(recommendations) ==
    JoinLines(<< <<"\n  QUICK COMPARISON\n", DIVIDER_LIGHT, "\n  Rank  Protocol  Chain  APY  Risk\n  ", "-">> >>
              \o [i \in DOMAIN Take(recommendations, 5) |->
                    <<"  ", ToString(recommendations[i].rank), " ", recommendations[i].protocol>>])
        \o <<"\n", DIVIDER_LIGHT>>

format_recommendation(rec) ==
    <<"\n  #", ToString(rec.rank), "  ", rec.protocol, "\n", DIVIDER_LIGHT, "<details>", "\n", DIVIDER_LIGHT>>

format_error(error, query) ==
    <<"\n", DIVIDER_HEAVY, "\n  ERROR\n", DIVIDER_HEAVY, "\n\n  ">> \o error \o <<"\n\n", DIVIDER_HEAVY>>

\* mutant: the no-results message is the bare prefix, the query is dropped.
format_no_results_no_echo(query) == <<"No yield opportunities found for your query: ">>

\* Line 107: the f-string of the no-results branch.
format_no_results(query) == <<"No yield opportunities found for your query: ">> \o query

format_report(st, query) ==
    JoinLines(<<format_header(query, Len(st.recommendations)),
                format_summary(st.recommendations)>>
              \o [i \in DOMAIN Take(st.recommendations, 3) |->
                    format_recommendation(st.recommendations[i])]
              \o << <<"\n  DISCLAIMER: This is not financial advice.\n", DIVIDER_HEAVY>> >>)

RenderUpdate(formatted, step) ==
    [formatted_response |-> formatted,
     messages |-> <<AIMessage(formatted)>>,
     processing_step |-> step]

\* format_response(state): the dict the node returns.
format_response(st) ==
    LET query == IF st.user_query # <<>> THEN st.user_query ELSE T_Your_yield_query IN
    IF TruthyOpt(st.error)
    THEN RenderUpdate(format_error(st.error[1], query), "formatting_complete_error")
    ELSE IF st.recommendations = <<>>
    THEN RenderUpdate(format_no_results(query), "formatting_complete_no_results")
    ELSE RenderUpdate(format_report(st, query), "formatting_complete")

-----------------------------------------------------------------------------
(* Idle values: the part of the state a specification does not use *)

NoPayload == [user_query |-> <<>>, messages |-> <<>>]

NoDelivery == [kind |-> "none", items |-> <<>>, retried |-> FALSE]

RequestIdle == state = AgentState /\ payload = NoPayload

ParseIdle == llm = NotCalled /\ answer = None /\ extracted = FALSE /\ raised = FALSE

MergeIdle == existing = <<>> /\ new = <<>> /\ merged = <<>> /\ remerged = <<>>

TextIdle == text = <<>> /\ risk = None

EnrichIdle == delivery = NoDelivery /\ deliveries = 0

\* No run of parse_amount_and_token yet; the process iterates the set in
\* declaration order.
TokenIdle == scan_order = KNOWN_TOKENS /\ runs = <<>>

NoTwin == [started |-> FALSE]

TwinIdle == twin = NoTwin

-----------------------------------------------------------------------------
(* The request: inbound payload -> parse_input -> format_response *)

T_move_risk == T_move \o <<" ">> \o T_risk

Queries == {<<>>, T_hi, T_compare, T_move_risk, T_audit, <<"V", "S">>}

\* Histories: nothing, one entry, or an earlier entry followed by the last one.
EarlierMessages == {AIMessage(T_compare)}

\* The entries that follow an earlier one: those whose content is not a list.
LaterMessages == {m \in Messages : m.content.t # "list"}

Histories ==
    {<<>>} \cup {<<m>> : m \in Messages}
        \cup {<<e, m>> : e \in EarlierMessages, m \in LaterMessages}

\* None of Queries holds a member of KNOWN_TOKENS, so the order in which the
\* process iterates that set has no bearing here; it stays at its idle value.
Init ==
    /\ pc = "start"
    /\ payload \in [user_query : Queries, messages : Histories]
    /\ state = [AgentState EXCEPT !.user_query = payload.user_query,
                                  !.messages = payload.messages]
    /\ ParseIdle /\ MergeIdle /\ TextIdle /\ EnrichIdle /\ TokenIdle /\ TwinIdle

\* The parse_input node: its returned dict updates the state; an exception
\* leaves the state as it was and ends the run.
ParseInput ==
    /\ pc = "start"
    /\ \E outcome \in LlmOutcomes :
       \E content \in IF outcome = "ok" THEN LlmAnswers ELSE {<<>>} :
         LET r == parse_input(state, outcome, content, scan_order) IN
         /\ raised' = r.raised
         /\ llm' = r.llm
         /\ answer' = IF r.llm.outcome = "ok" THEN Some(content) ELSE None
         /\ extracted' = r.extracted
         /\ state' = IF r.raised THEN state ELSE ApplyUpdate(state, r.update)
         /\ pc' = IF r.raised THEN "raised" ELSE r.update.processing_step
    /\ UNCHANGED <<payload, mergeVars, textVars, enrichVars, tokenVars, twinVars>>

\* The format_response node, on the state the earlier nodes left.
FormatResponse ==
    /\ pc \in {"terminal", "input_parsed", "input_empty_error"}
    /\ state' = ApplyUpdate(state, format_response(state))
    /\ pc' = "rendered"
    /\ UNCHANGED <<payload, parseVars, mergeVars, textVars, enrichVars, tokenVars, twinVars>>

Next == ParseInput \/ FormatResponse

Spec == Init /\ [][Next]_vars

-----------------------------------------------------------------------------
(* The renderer on every terminal state *)

ErrorValues == {None, Some(<<>>), Some(T_No_query_provided), Some(<<"b", "o", "o", "m">>)}

RecommendationLists == SeqsUpTo(Recommendations, MaxLen)

InitRender ==
    /\ pc = "terminal"
    /\ payload = NoPayload
    /\ \E q \in Queries, e \in ErrorValues, recs \in RecommendationLists :
         state = [AgentState EXCEPT !.user_query = q, !.error = e,
                                    !.recommendations = recs]
    /\ ParseIdle /\ MergeIdle /\ TextIdle /\ EnrichIdle /\ TokenIdle /\ TwinIdle

NextRender == FormatResponse

SpecRender == InitRender /\ [][NextRender]_vars

-----------------------------------------------------------------------------
(* The merge functions on every pair of arguments *)

OpportunityLists == SeqsUpTo(Opportunities, MaxLen)

WarningLists == SeqsUpTo(WarningStrings, MaxLen)

InitMerge ==
    /\ \/ pc = "opportunities" /\ existing \in OpportunityLists /\ new \in OpportunityLists
       \/ pc = "warnings" /\ existing \in WarningLists /\ new \in WarningLists
    /\ merged = <<>> /\ remerged = <<>>
    /\ RequestIdle /\ ParseIdle /\ TextIdle /\ EnrichIdle /\ TokenIdle /\ TwinIdle

MergeOpportunities ==
    /\ pc = "opportunities"
    /\ merged' = merge_opportunities(existing, new)
    /\ pc' = "opportunities_merged"
    /\ UNCHANGED <<existing, new, remerged, requestVars, parseVars, textVars, enrichVars, tokenVars, twinVars>>

\* The same new collection merged into the result once more.
RemergeOpportunities ==
    /\ pc = "opportunities_merged"
    /\ remerged' = merge_opportunities(merged, new)
    /\ pc' = "opportunities_remerged"
    /\ UNCHANGED <<existing, new, merged, requestVars, parseVars, textVars, enrichVars, tokenVars, twinVars>>

MergeWarnings ==
    /\ pc = "warnings"
    /\ merged' = merge_warnings(existing, new)
    /\ pc' = "warnings_merged"
    /\ UNCHANGED <<existing, new, remerged, requestVars, parseVars, textVars, enrichVars, tokenVars, twinVars>>

NextMerge == MergeOpportunities \/ RemergeOpportunities \/ MergeWarnings

SpecMerge == InitMerge /\ [][NextMerge]_vars

-----------------------------------------------------------------------------
(* Repeated enrichment of one Request State *)

InitEnrich ==
    /\ pc = "enriching"
    /\ RequestIdle /\ ParseIdle /\ MergeIdle /\ TextIdle /\ EnrichIdle /\ TokenIdle /\ TwinIdle

\* An upstream stage hands over opportunities; the aggregator merges them
\* into the state.
EnrichOpportunities(items, retried) ==
    /\ pc = "enriching"
    /\ deliveries < MaxDeliveries
    /\ state' = [state EXCEPT !.yield_opportunities =
                                  merge_opportunities(state.yield_opportunities, items)]
    /\ delivery' = [kind |-> "opportunities", items |-> items, retried |-> retried]
    /\ deliveries' = deliveries + 1
    /\ UNCHANGED <<pc, payload, parseVars, mergeVars, textVars, tokenVars, twinVars>>

EnrichWarnings(items, retried) ==
    /\ pc = "enriching"
    /\ deliveries < MaxDeliveries
    /\ state' = [state EXCEPT !.warnings = merge_warnings(state.warnings, items)]
    /\ delivery' = [kind |-> "warnings", items |-> items, retried |-> retried]
    /\ deliveries' = deliveries + 1
    /\ UNCHANGED <<pc, payload, parseVars, mergeVars, textVars, tokenVars, twinVars>>

DeliverOpportunities == \E items \in OpportunityLists : EnrichOpportunities(items, FALSE)

DeliverWarnings == \E items \in WarningLists : EnrichWarnings(items, FALSE)

\* A retried stage delivers what it delivered last once more.
RetryStage ==
    \/ delivery.kind = "opportunities" /\ EnrichOpportunities(delivery.items, TRUE)
    \/ delivery.kind = "warnings" /\ EnrichWarnings(delivery.items, TRUE)

NextEnrich == DeliverOpportunities \/ DeliverWarnings \/ RetryStage

SpecEnrich == InitEnrich /\ [][NextEnrich]_vars

-----------------------------------------------------------------------------
(* parse_risk_tolerance on every text *)

Fragments ==
    {T_safe, <<"L", "o", "w">>, <<"h", "i", "g", "h">>, <<" ", "r", "i", "s", "k">>,
     <<"D", "e", "g", "e", "n">>, T_conservative, T_aggressive, <<"x">>, <<"u", "n">>}

Texts == {Concat(fs) : fs \in SeqsUpTo(Fragments, MaxFrags)}

InitText ==
    /\ pc = "text"
    /\ text \in Texts
    /\ risk = None
    /\ RequestIdle /\ ParseIdle /\ MergeIdle /\ EnrichIdle /\ TokenIdle /\ TwinIdle

ParseRiskTolerance ==
    /\ pc = "text"
    /\ risk' = Some(parse_risk_tolerance(text))
    /\ pc' = "risk_parsed"
    /\ UNCHANGED <<text, requestVars, parseVars, mergeVars, enrichVars, tokenVars, twinVars>>

NextText == ParseRiskTolerance

SpecText == InitText /\ [][NextText]_vars

-----------------------------------------------------------------------------
(* parse_amount_and_token, run on one text by this process and by others *)

\* Pieces the texts are made of: amounts as users write them, and members
\* of the vocabulary with and without a number right before them.
TokenFragments ==
    {<<"5", "k", " ">>,
     <<"9", " ", "o", "n", " ">>,
     <<"u", "s", "d", "c">>,
     <<"w", "e", "t", "h", " ">>,
     <<"d", "a", "i", " ">>,
     <<"1", ",", "5", "0", "0", ".", "5", " ">>,
     <<"$", "2">>}

TokenTexts == {Concat(fs) : fs \in SeqsUpTo(TokenFragments, MaxFrags)}

\* The number of runs compared.
MaxRuns == 2

InitToken ==
    /\ pc = "token"
    /\ text \in TokenTexts
    /\ risk = None
    /\ scan_order \in ScanOrders
    /\ runs = <<>>
    /\ RequestIdle /\ ParseIdle /\ MergeIdle /\ EnrichIdle /\ TwinIdle

\* One more call in this process: the set is iterated as before.
RunHere ==
    /\ pc = "token"
    /\ Len(runs) < MaxRuns
    /\ runs' = Append(runs, [process |-> "this",
                             result |-> parse_amount_and_token(text, scan_order)])
    /\ UNCHANGED <<pc, text, risk, scan_order, requestVars, parseVars, mergeVars, enrichVars,
                   twinVars>>

\* A call in another process, whose hash salt orders the set its own way.
RunElsewhere ==
    /\ pc = "token"
    /\ Len(runs) < MaxRuns
    /\ \E order \in ScanOrders :
         runs' = Append(runs, [process |-> "other",
                               result |-> parse_amount_and_token(text, order)])
    /\ UNCHANGED <<pc, text, risk, scan_order, requestVars, parseVars, mergeVars, enrichVars,
                   twinVars>>

NextToken == RunHere \/ RunElsewhere

SpecToken == InitToken /\ [][NextToken]_vars

-----------------------------------------------------------------------------
(* Two requests with the same query and history, and their own presets *)

T_5k_usdc_on_arb == <<"5", "k", " ", "u", "s", "d", "c", " ", "o", "n", " ", "a", "r", "b">>

T_9_on_weth == <<"9", " ", "o", "n", " ", "w", "e", "t", "h", " ">>

T_2_weth_dai == <<"2", " ", "w", "e", "t", "h", " ", "d", "a", "i">>

\* The query typed in, or left empty with the text in the history.
TwinRequests ==
    {[user_query |-> T_5k_usdc_on_arb, messages |-> <<>>],
     [user_query |-> T_9_on_weth, messages |-> <<>>],
     [user_query |-> <<>>,
      messages |-> <<[shape |-> "mapping", content |-> StrValue(T_2_weth_dai)]>>]}

\* server.py invoke_agent: the request parameters that arrive in the
\* initial state next to the query, each absent or set.
PresetValues ==
    [amount : {None, Some([whole |-> 7, frac |-> <<>>])},
     token : {None, Some("DAI")},
     current_chain : {None, Some("base")},
     risk_tolerance : {"moderate", "aggressive"},
     preferred_chains : {<<>>, <<"base">>},
     excluded_protocols : {<<>>, <<"aave">>}]

NoPresets ==
    [f \in {"amount", "token", "current_chain", "risk_tolerance", "preferred_chains",
            "excluded_protocols"} |-> AgentState[f]]

\* Requests that set no parameter, one of them, or all of them.
Presets ==
    {p \in PresetValues :
        \/ \A f \in DOMAIN p : p[f] # NoPresets[f]
        \/ \A f, g \in DOMAIN p : (p[f] # NoPresets[f] /\ p[g] # NoPresets[g]) => f = g}

\* The second request sets every parameter, to values of its own.
TwinPresets ==
    [amount |-> Some([whole |-> 3, frac |-> <<"5">>]),
     token |-> Some("FRAX"),
     current_chain |-> Some("bsc"),
     risk_tolerance |-> "conservative",
     preferred_chains |-> <<"bsc", "base">>,
     excluded_protocols |-> <<"curve">>]

\* The initial state of a request: the query, the history and the presets.
InitialState(request, presets) ==
    [f \in DOMAIN AgentState |->
        IF f \in DOMAIN presets THEN presets[f]
        ELSE IF f \in {"user_query", "messages"} THEN request[f]
        ELSE AgentState[f]]

InitTwin ==
    /\ pc = "start"
    /\ \E request \in TwinRequests, p \in Presets :
         /\ payload = [user_query |-> request.user_query, messages |-> request.messages,
                       presets |-> p]
         /\ state = InitialState(request, p)
         /\ twin = [started |-> TRUE, presets |-> TwinPresets, pc |-> "start",
                    state |-> InitialState(request, TwinPresets)]
    /\ scan_order \in ScanOrders
    /\ runs = <<>>
    /\ ParseIdle /\ MergeIdle /\ TextIdle /\ EnrichIdle

\* The parse_input node on the second request, which the process handles
\* after the first one.
ParseTwin ==
    /\ pc # "start"
    /\ twin.started /\ twin.pc = "start"
    /\ \E outcome \in LlmOutcomes :
       \E content \in IF outcome = "ok" THEN LlmAnswers ELSE {<<>>} :
         LET r == parse_input(twin.state, outcome, content, scan_order) IN
         twin' = [twin EXCEPT
                    !.state = IF r.raised THEN @ ELSE ApplyUpdate(@, r.update),
                    !.pc = IF r.raised THEN "raised" ELSE r.update.processing_step]
    /\ UNCHANGED <<pc, requestVars, parseVars, mergeVars, textVars, enrichVars, tokenVars>>

NextTwin == ParseInput \/ ParseTwin

SpecTwin == InitTwin /\ [][NextTwin]_vars

-----------------------------------------------------------------------------
(* Claims about the merge functions (SpecMerge) *)

\* The indices of s that hold the first occurrence of their key.
FirstOccurrences(s, Key(_)) ==
    {i \in DOMAIN s : \A j \in 1..(i - 1) : Key(s[j]) # Key(s[i])}

\* The elements of s at the indices K, in index order.
Picked(s, K) == [k \in 1..Cardinality(K) |-> s[Kth(K, k)]]

PoolIdOf(opp) == opp.pool_id

\* C1: merge_opportunities returns existing unchanged as a prefix, followed
\* by exactly the items of new whose pool_id is not in existing, in their
\* order in new, each pool_id of new appended once; for a pool_id in both,
\* the instance of existing is the one kept.
C1_MergeOpportunitiesContract ==
    pc = "opportunities_merged" =>
        LET appended == {i \in FirstOccurrences(new, PoolIdOf) :
                            new[i].pool_id \notin PoolIdsOf(existing)}
        IN
        /\ Len(merged) = Len(existing) + Cardinality(appended)
        /\ SubSeq(merged, 1, Len(existing)) = existing
        /\ SubSeq(merged, Len(existing) + 1, Len(merged)) = Picked(new, appended)
        /\ \A i \in DOMAIN merged :
              merged[i].pool_id \in PoolIdsOf(existing) =>
                  i <= Len(existing) /\ merged[i] = existing[i]

\* C1 witness: a merge where one pool is in both collections with different
\* data and new also brings a pool that existing does not have.
C1_Witness ==
    /\ pc = "opportunities_merged"
    /\ Len(existing) = 1 /\ Len(new) > 1
    /\ \E i \in DOMAIN new :
          new[i].pool_id = existing[1].pool_id /\ new[i] # existing[1]
    /\ Len(merged) = Len(existing) + 1

\* C2: merge_opportunities is idempotent: merging X with X does not grow X,
\* and merging new into the merged result again changes nothing.
C2_MergeOpportunitiesIdempotent ==
    /\ pc \in {"opportunities_merged", "opportunities_remerged"} /\ existing = new
          => Len(merged) = Len(existing)
    /\ pc = "opportunities_remerged" => remerged = merged

\* C2 witness: a second merge after a first one that did append something.
C2_Witness ==
    /\ pc = "opportunities_remerged"
    /\ Len(merged) > Len(existing)
    /\ remerged = merged

\* C2 witness of the self-merge case lies in the same run: a collection
\* with a repeated pool merged with itself.
C2_SelfMergeReached ==
    pc = "opportunities_remerged" /\ existing = new /\ Len(existing) = MaxLen

Identity(x) == x

\* C3: merge_warnings returns existing + new with every value kept only at
\* its earliest position: no duplicates, first-occurrence order; merging
\* [a, b] with [b, c] yields [a, b, c].
C3_MergeWarningsContract ==
    pc = "warnings_merged" =>
        /\ merged = Picked(existing \o new, FirstOccurrences(existing \o new, Identity))
        /\ NoDuplicates(merged)
        /\ Range(merged) = Range(existing \o new)
        /\ existing = <<"a", "b">> /\ new = <<"b", "c">> => merged = <<"a", "b", "c">>

\* C3 witness: the example of the contract.
C3_Witness ==
    /\ pc = "warnings_merged"
    /\ existing = <<"a", "b">> /\ new = <<"b", "c">>
    /\ merged = <<"a", "b", "c">>

-----------------------------------------------------------------------------
(* Claims about repeated enrichment (SpecEnrich) *)

-----------------------------------------------------------------------------
(* Claims about the renderer (SpecRender) *)

\* The bordered ERROR panel: its frame, whatever the message inside.
IsErrorPanel(out) ==
    /\ Len(out) >= 7
    /\ SubSeq(out, 1, 5) = <<"\n", DIVIDER_HEAVY, "\n  ERROR\n", DIVIDER_HEAVY, "\n\n  ">>
    /\ SubSeq(out, Len(out) - 1, Len(out)) = <<"\n\n", DIVIDER_HEAVY>>

IsNoResultsMessage(out) ==
    /\ out # <<>>
    /\ out[1] = "No yield opportunities found for your query: "

\* C5: error always wins: for every terminal state whose error is not None,
\* whatever recommendations holds, format_response produces the ERROR panel
\* with the error message and the step formatting_complete_error.
C5_ErrorAlwaysWins ==
    pc = "rendered" /\ state.error # None =>
        /\ IsErrorPanel(state.formatted_response)
        /\ Contains(state.error[1], state.formatted_response)
        /\ state.processing_step = "formatting_complete_error"
        /\ ~IsNoResultsMessage(state.formatted_response)

\* C6: with no error and no recommendations format_response produces a
\* non-empty text that is not the ERROR panel; it contains the query when
\* user_query is non-empty and is still non-empty when user_query is empty.
C6_NoResultsMessage ==
    pc = "rendered" /\ state.error = None /\ state.recommendations = <<>> =>
        /\ state.formatted_response # <<>>
        /\ ~IsErrorPanel(state.formatted_response)
        /\ state.user_query # <<>> =>
              /\ Contains(state.user_query, state.formatted_response)
              /\ Len(state.formatted_response) > Len(state.user_query)

\* C6 witness: a rendered state with a query, no error, no recommendations.
C6_Witness ==
    /\ pc = "rendered"
    /\ state.error = None /\ state.recommendations = <<>>
    /\ state.user_query = T_move_risk
    /\ IsNoResultsMessage(state.formatted_response)

\* C6, the empty-query case reached as well.
C6_EmptyQueryReached ==
    /\ pc = "rendered"
    /\ state.error = None /\ state.recommendations = <<>>
    /\ state.user_query = <<>>
    /\ state.formatted_response # <<>>

-----------------------------------------------------------------------------
(* Claims about parse_input (Spec) *)

EmptyPayload == payload.user_query = <<>> /\ payload.messages = <<>>

\* C7: with an empty query and an empty history parse_input signals the
\* empty-input error (error set, step input_empty_error) without the
\* external call and without extraction, and format_response on the
\* resulting state produces the ERROR panel, not the no-results message.
C7_EmptyInputShortCircuits ==
    EmptyPayload /\ pc # "start" =>
        /\ pc \in {"input_empty_error", "rendered"}
        /\ llm = NotCalled /\ ~extracted /\ ~raised
        /\ state.error # None
        /\ pc = "input_empty_error" => state.processing_step = "input_empty_error"
        /\ pc = "rendered" =>
              /\ IsErrorPanel(state.formatted_response)
              /\ Contains(state.error[1], state.formatted_response)
              /\ ~IsNoResultsMessage(state.formatted_response)
              /\ state.processing_step = "formatting_complete_error"

\* C7 witness: the empty request rendered as the ERROR panel.
C7_Witness ==
    /\ EmptyPayload
    /\ pc = "rendered"
    /\ llm.calls = 0
    /\ IsErrorPanel(state.formatted_response)

\* A payload with a non-empty string reachable by the normalizer's rules.
UsablePart(part) == part.k \in {"str", "text"} /\ part.text # <<>>

UsableContent(content) ==
    \/ content.t = "str" /\ content.s # <<>>
    \/ content.t = "list" /\ \E i \in DOMAIN content.parts : UsablePart(content.parts[i])

UsablePayload ==
    \/ payload.user_query # <<>>
    \/ /\ payload.messages # <<>>
       /\ LET last_message == payload.messages[Len(payload.messages)] IN
          /\ last_message.shape \in {"object", "mapping"}
          /\ UsableContent(last_message.content)

\* C8: for every payload with a non-empty string reachable by the
\* normalizer's rules, parse_input neither signals the empty-input error
\* nor raises, also when parts of unknown shape sit next to the usable one.
C8_UsablePayloadIsParsed ==
    UsablePayload /\ pc # "start" =>
        /\ ~raised
        /\ pc # "input_empty_error"
        /\ state.error = None

LlmFailed == llm.outcome \in {"construct_fails", "invoke_fails", "read_fails"}

\* C9: when the external classification call fails, parse_input completes
\* with step input_parsed and the rule-tier intent parse_intent(query); no
\* exception escapes, no error is set, and the call is issued at most once.
C9_FailedCallKeepsRuleTier ==
    /\ llm.calls <= 1
    /\ LlmFailed =>
          /\ pc \in {"input_parsed", "rendered"}
          /\ ~raised
          /\ state.error = None
          /\ state.intent = Some(parse_intent(state.user_query))
          /\ pc = "input_parsed" => state.processing_step = "input_parsed"

\* C9 witness: the invocation failed and the rule tier's non-default answer
\* stands.
C9_Witness ==
    /\ pc = "input_parsed"
    /\ llm = [outcome |-> "invoke_fails", calls |-> 1]
    /\ state.user_query = T_move_risk
    /\ state.intent = Some("route_only")

-----------------------------------------------------------------------------
(* Claims about parse_risk_tolerance (SpecText) *)

ConservativeKeywords == {T_safe, T_low_risk, T_conservative}

AggressiveKeywords == {T_aggressive, T_high_risk, T_degen}

HasKeyword(keywords, txt) == \E k \in keywords : Contains(k, Lower(txt))

\* C10: parse_risk_tolerance is total and prioritized: it returns one of the
\* three values; conservative whenever a conservative keyword is present
\* (also next to an aggressive one), aggressive when only an aggressive
\* keyword is present, moderate when neither bucket matches.
C10_RiskToleranceTotalAndPrioritized ==
    pc = "risk_parsed" =>
        /\ risk # None
        /\ risk[1] \in {"conservative", "moderate", "aggressive"}
        /\ HasKeyword(ConservativeKeywords, text) => risk[1] = "conservative"
        /\ ~HasKeyword(ConservativeKeywords, text) /\ HasKeyword(AggressiveKeywords, text)
              => risk[1] = "aggressive"
        /\ ~HasKeyword(ConservativeKeywords, text) /\ ~HasKeyword(AggressiveKeywords, text)
              => risk[1] = "moderate"

\* C10 witness: a text with a keyword of each bucket, read as conservative.
C10_Witness ==
    /\ pc = "risk_parsed"
    /\ HasKeyword(ConservativeKeywords, text)
    /\ HasKeyword(AggressiveKeywords, text)
    /\ risk = Some("conservative")

-----------------------------------------------------------------------------
(* Claims about the model-assisted override (Spec) *)

\* The intent read from the answer alone: compare, then route, then risk,
\* and the rule tier's default when none is contained.
IntentOfAnswer(content) ==
    LET lowered == Lower(content) IN
    IF Contains(T_compare, lowered) THEN "compare"
    ELSE IF Contains(T_route, lowered) THEN "route_only"
    ELSE IF Contains(T_risk, lowered) THEN "risk_analysis"
    ELSE "yield_search"

\* C11: when the external call succeeds, the intent of parse_input is the
\* one re-derived from the answer alone (compare, route, risk, else the
\* default yield_search); it overrides the rule-tier result for every
\* combination of rule-tier result and answer.
C11_AnswerOverridesRuleTier ==
    llm.outcome = "ok" => state.intent = Some(IntentOfAnswer(answer[1]))


\* The vocabulary members a text holds.
TokensHeld(txt) == {t \in Range(KNOWN_TOKENS) : Contains(TokenLower(t), safe_lower(txt))}

\* The number in the text is not directly followed by a known token.
NoDirectToken(txt) ==
    LET match == AmountMatch(SubThousands(safe_lower(txt))) IN
    ~match.found \/ DirectToken(match.group2) = None

\* C12: when the number in the text is not directly followed by a known
\* token and the text holds several known tokens, any two runs of
\* parse_amount_and_token on that text, in this process or in another one,
\* return the same token.
C12_TokenIsDeterministic ==
    (NoDirectToken(text) /\ Cardinality(TokensHeld(text)) > 1) =>
        \A i, j \in DOMAIN runs : runs[i].result.token = runs[j].result.token

\* A part that contributes no fragment, or an empty one: an empty string, a
\* text part with empty or missing text, a part of another type or of
\* unknown shape.  (A text part whose text is None is left aside: the join
\* raises on it.)
EmptyPart(part) ==
    \/ part.k \in {"str", "text"} /\ part.text = <<>>
    \/ part.k \in {"text_missing", "image", "other"}

EmptyContent(content) ==
    \/ content.t = "none"
    \/ content.t = "str" /\ content.s = <<>>
    \/ content.t = "list" /\ \A i \in DOMAIN content.parts : EmptyPart(content.parts[i])

NoUsableText ==
    /\ payload.user_query = <<>>
    /\ \/ payload.messages = <<>>
       \/ LET last_message == payload.messages[Len(payload.messages)] IN
          \/ last_message.shape \in {"mapping_no_content", "bare"}
          \/ EmptyContent(last_message.content)

\* C13: when the explicit query is empty and the history is empty, or its
\* last entry has no content, empty content, or a list of parts none of
\* which contributes a non-empty fragment (any number of them), parse_input
\* signals the empty-input error and extracts nothing.
C13_NoUsableTextIsEmptyInput ==
    NoUsableText /\ pc # "start" =>
        /\ ~raised
        /\ ~extracted
        /\ state.error = Some(T_No_query_provided)

\* The request parameters parse_input returns on success.
ParameterFields ==
    {"amount", "token", "preferred_chains", "current_chain", "risk_tolerance",
     "excluded_protocols", "target_chains"}

BothParsed == pc = "input_parsed" /\ twin.started /\ twin.pc = "input_parsed"

=============================================================================
